---- MODULE Spec2Model ----
(***************************************************************************)
(* The Retry output of lib/output/retry.go: the Coordinator (Retry.loop),  *)
(* one Worker goroutine per transaction, the lifecycle operations          *)
(* (Consume, CloseAsync, WaitForClose), and, at their boundary, the        *)
(* upstream source, the wrapped Delivery Target and the backoff policy.    *)
(*                                                                         *)
(* Unbuffered Go channels are rendezvous: a send and its receive are one   *)
(* joint step.  A closed channel is a boolean.  A send on a closed channel *)
(* and a second close of a channel panic, which ends the whole process.    *)
(***************************************************************************)
EXTENDS Integers, FiniteSets, Sequences

\* ---- bounds of the model ------------------------------------------------
MaxTx == 2
MaxBudget == 2
MaxFails == 3
MaxClosers == 2
MaxTimeout == 1
MaxConsume == 2

Tx == 1..MaxTx
Closers == 1..MaxClosers
NilSrc == 0
Sources == {1, 2}

VARIABLES
  \* configuration (retries.Config), fixed at construction
  MaxRetries,       \* max retry count, 0 = unbounded
  ElapsedLimited,   \* TRUE iff a max elapsed time is configured
  \* Retry fields
  running,          \* r.running (int32, 1 or 0)
  transactionsIn,   \* r.transactionsIn: NilSrc or the wired source
  outClosed,        \* r.transactionsOut has been closed
  closeChan,        \* r.closeChan has been closed
  closedChan,       \* r.closedChan has been closed
  \* Coordinator goroutine (Retry.loop)
  cpc,              \* its position
  wg,               \* sync.WaitGroup counter
  errLooped,        \* the Global Retry-Loop Counter
  tran,             \* the transaction just pulled (0 = none)
  \* Worker goroutines, one per transaction
  wpc, inErrLoop, resOut, res, backOff,
  \* wrapped Delivery Target
  twired, tStopReq, tclosed, pending,
  \* upstream source and the readers of the response destinations
  srcNext, srcClosed, resp,
  \* callers of CloseAsync, WaitForClose, Consume
  clpc,
  wfpc,             \* the WaitForClose caller's position
  wfTimer,          \* what is left of its timeout
  wfFired,          \* the timer's channel is ready
  wfRet,            \* what the last call returned
  wfClosedAtFire,   \* closedChan was closed when the timer fired
  consumeCalls, consumeRet,
  \* the process has panicked
  panicked,
  \* history: counts of events
  hist

vars == << MaxRetries, ElapsedLimited, running, transactionsIn, outClosed,
           closeChan, closedChan, cpc, wg, errLooped, tran,
           wpc, inErrLoop, resOut, res, backOff,
           twired, tStopReq, tclosed, pending,
           srcNext, srcClosed, resp,
           clpc,
  wfpc,             \* the WaitForClose caller's position
  wfTimer,          \* what is left of its timeout
  wfFired,          \* the timer's channel is ready
  wfRet,            \* what the last call returned
  wfClosedAtFire,   \* closedChan was closed when the timer fired
           consumeCalls, consumeRet, panicked, hist >>

confVars  == << MaxRetries, ElapsedLimited >>
coordVars == << cpc, wg, errLooped, tran >>
workVars  == << wpc, inErrLoop, resOut, res, backOff >>
targVars  == << twired, tStopReq, tclosed, pending >>
srcVars   == << srcNext, srcClosed >>
closeVars == << clpc >>
waitVars  == << wfpc, wfTimer, wfFired, wfRet, wfClosedAtFire >>
consVars  == << consumeCalls, consumeRet >>
lifeVars  == << running, closeChan, closedChan >>

\* hist fields:
\*   sub[t]    submissions of t to the Delivery Target (dispatch + resubmissions)
\*   fails[t]  failure responses the Worker of t has received
\*   waits[t]  backoff waits the Worker of t has completed
\*   payOK[t]  every submission for t carried t's payload on t's response channel
\*   mError, mSuccess, mEndOfRetries: increments of the metrics, per transaction
\*   mCount    transactions received from the source
\*   casWins   transitions of running from 1 to 0
\*   closes    executions of close(r.closeChan)
\*   outCloses executions of close(r.transactionsOut)
\*   loops     Coordinator loops started
\*   wireCalls calls of the Delivery Target's Consume
\*   wires     successful wirings of the Delivery Target
\*   consumeOK Consume calls that returned nil
ZeroTx == [t \in Tx |-> 0]

HistInit ==
  [ sub |-> ZeroTx, fails |-> ZeroTx, waits |-> ZeroTx,
    payOK |-> [t \in Tx |-> TRUE],
    mError |-> ZeroTx, mSuccess |-> ZeroTx, mEndOfRetries |-> ZeroTx,
    mCount |-> 0, casWins |-> 0, closes |-> 0, outCloses |-> 0,
    loops |-> 0, wireCalls |-> 0, wires |-> 0, consumeOK |-> 0 ]

\* NewRetry: running = 1, fresh open channels, nothing wired.
Init ==
  /\ MaxRetries \in 0..MaxBudget
  /\ ElapsedLimited \in BOOLEAN
  \* a policy with both limits stops no later than one with the elapsed
  \* time alone, so that combination adds no behaviour of the Workers
  /\ ElapsedLimited => MaxRetries = 0
  /\ running = 1
  /\ transactionsIn = NilSrc
  /\ outClosed = FALSE
  /\ closeChan = FALSE
  /\ closedChan = FALSE
  /\ cpc = "none"
  /\ wg = 0
  /\ errLooped = 0
  /\ tran = 0
  /\ wpc = [t \in Tx |-> "none"]
  /\ inErrLoop = [t \in Tx |-> FALSE]
  /\ resOut = [t \in Tx |-> "nil"]
  /\ res = [t \in Tx |-> "none"]
  /\ backOff = [t \in Tx |-> -1]
  /\ twired = FALSE
  /\ tStopReq = FALSE
  /\ tclosed = FALSE
  /\ pending = {}
  /\ srcNext = 1
  /\ srcClosed = FALSE
  /\ resp = [t \in Tx |-> << >>]
  /\ clpc = [c \in Closers |-> "idle"]
  /\ wfpc = "idle"
  /\ wfTimer = 0
  /\ wfFired = FALSE
  /\ wfRet = "none"
  /\ wfClosedAtFire = FALSE
  /\ consumeCalls = 0
  /\ consumeRet = "none"
  /\ panicked = FALSE
  /\ hist = HistInit

Alive == ~panicked

\* ---- Consume ------------------------------------------------------------
\* The wrapped output's Consume: fails if already wired, and may reject a
\* first wiring as well.
WrappedConsume == IF twired THEN {"errWrapped"} ELSE {"nil", "errWrapped"}

\* Mutant of Consume: the already-started check is missing.
ConsumeNoGuard(s) ==
  /\ Alive
  /\ consumeCalls < MaxConsume
  /\ consumeCalls' = consumeCalls + 1
  /\ \E err \in WrappedConsume :
       IF err # "nil"
         THEN /\ consumeRet' = err
              /\ hist' = [hist EXCEPT !.wireCalls = @ + 1]
              /\ UNCHANGED << transactionsIn, twired, cpc >>
         ELSE /\ consumeRet' = "nil"
              /\ twired' = TRUE
              /\ transactionsIn' = s
              /\ cpc' = "loop"
              /\ hist' = [hist EXCEPT !.wireCalls = @ + 1,
                                      !.wires = @ + 1,
                                      !.consumeOK = @ + 1,
                                      !.loops = @ + 1]
  /\ UNCHANGED << confVars, running, outClosed, closeChan, closedChan,
                  wg, errLooped, tran, workVars, tStopReq, tclosed, pending,
                  srcVars, resp, closeVars, waitVars, panicked >>

\* Mutant of Consume: the source is stored before the Delivery Target is
\* wired.
ConsumeAssignFirst(s) ==
  /\ Alive
  /\ consumeCalls < MaxConsume
  /\ consumeCalls' = consumeCalls + 1
  /\ IF transactionsIn # NilSrc
       THEN /\ consumeRet' = "ErrAlreadyStarted"
            /\ UNCHANGED << transactionsIn, twired, cpc, hist >>
       ELSE /\ transactionsIn' = s
            /\ \E err \in WrappedConsume :
                 IF err # "nil"
                   THEN /\ consumeRet' = err
                        /\ hist' = [hist EXCEPT !.wireCalls = @ + 1]
                        /\ UNCHANGED << twired, cpc >>
                   ELSE /\ consumeRet' = "nil"
                        /\ twired' = TRUE
                        /\ cpc' = "loop"
                        /\ hist' = [hist EXCEPT !.wireCalls = @ + 1,
                                                !.wires = @ + 1,
                                                !.consumeOK = @ + 1,
                                                !.loops = @ + 1]
  /\ UNCHANGED << confVars, running, outClosed, closeChan, closedChan,
                  wg, errLooped, tran, workVars, tStopReq, tclosed, pending,
                  srcVars, resp, closeVars, waitVars, panicked >>

Consume(s) ==
  /\ Alive
  /\ consumeCalls < MaxConsume
  /\ consumeCalls' = consumeCalls + 1
  /\ IF transactionsIn # NilSrc
       THEN /\ consumeRet' = "ErrAlreadyStarted"
            /\ UNCHANGED << transactionsIn, twired, cpc, hist >>
       ELSE \E err \in WrappedConsume :
              IF err # "nil"
                THEN /\ consumeRet' = err
                     /\ hist' = [hist EXCEPT !.wireCalls = @ + 1]
                     /\ UNCHANGED << transactionsIn, twired, cpc >>
                ELSE /\ consumeRet' = "nil"
                     /\ twired' = TRUE
                     /\ transactionsIn' = s
                     /\ cpc' = "loop"
                     /\ hist' = [hist EXCEPT !.wireCalls = @ + 1,
                                             !.wires = @ + 1,
                                             !.consumeOK = @ + 1,
                                             !.loops = @ + 1]
  /\ UNCHANGED << confVars, running, outClosed, closeChan, closedChan,
                  wg, errLooped, tran, workVars, tStopReq, tclosed, pending,
                  srcVars, resp, closeVars, waitVars, panicked >>

\* ---- CloseAsync ---------------------------------------------------------
\* Mutant of CloseAsyncCAS: a plain store instead of the compare-and-swap.
CloseAsyncStore(c) ==
  /\ Alive
  /\ clpc[c] = "idle"
  /\ running' = 0
  /\ clpc' = [clpc EXCEPT ![c] = "won"]
  /\ hist' = [hist EXCEPT !.casWins = @ + 1]
  /\ UNCHANGED << confVars, transactionsIn, outClosed, closeChan, closedChan,
                  coordVars, workVars, targVars, srcVars, resp, waitVars,
                  consVars, panicked >>

\* atomic.CompareAndSwapInt32(&r.running, 1, 0)
CloseAsyncCAS(c) ==
  /\ Alive
  /\ clpc[c] = "idle"
  /\ IF running = 1
       THEN /\ running' = 0
            /\ clpc' = [clpc EXCEPT ![c] = "won"]
            /\ hist' = [hist EXCEPT !.casWins = @ + 1]
       ELSE /\ clpc' = [clpc EXCEPT ![c] = "done"]
            /\ UNCHANGED << running, hist >>
  /\ UNCHANGED << confVars, transactionsIn, outClosed, closeChan, closedChan,
                  coordVars, workVars, targVars, srcVars, resp, waitVars,
                  consVars, panicked >>

\* close(r.closeChan); closing a closed channel panics
CloseAsyncClose(c) ==
  /\ Alive
  /\ clpc[c] = "won"
  /\ clpc' = [clpc EXCEPT ![c] = "done"]
  /\ hist' = [hist EXCEPT !.closes = @ + 1]
  /\ IF closeChan
       THEN panicked' = TRUE /\ UNCHANGED closeChan
       ELSE closeChan' = TRUE /\ UNCHANGED panicked
  /\ UNCHANGED << confVars, running, transactionsIn, outClosed, closedChan,
                  coordVars, workVars, targVars, srcVars, resp, waitVars,
                  consVars >>

\* ---- WaitForClose -------------------------------------------------------
\* The call evaluates time.After(timeout) and enters the select.
WaitForCloseCall(timeout) ==
  /\ Alive
  /\ wfpc = "idle"
  /\ wfpc' = "select"
  /\ wfTimer' = timeout
  /\ wfFired' = FALSE
  /\ wfRet' = "none"
  /\ wfClosedAtFire' = FALSE
  /\ UNCHANGED << confVars, lifeVars, transactionsIn, outClosed, coordVars,
                  workVars, targVars, srcVars, resp, closeVars, consVars,
                  panicked, hist >>

\* Time passes; the runtime delivers on the timer's channel once the
\* duration has elapsed.
TimerStep ==
  /\ Alive
  /\ wfpc = "select"
  /\ ~wfFired
  /\ IF wfTimer > 0
       THEN wfTimer' = wfTimer - 1 /\ UNCHANGED << wfFired, wfClosedAtFire >>
       ELSE wfFired' = TRUE /\ wfClosedAtFire' = closedChan
            /\ UNCHANGED wfTimer
  /\ UNCHANGED << confVars, lifeVars, transactionsIn, outClosed, coordVars,
                  workVars, targVars, srcVars, resp, closeVars, wfpc, wfRet,
                  consVars, panicked, hist >>

\* The select: any ready case may be taken.
WaitForCloseReady == (IF closedChan THEN {"nil"} ELSE {})
                       \cup (IF wfFired THEN {"ErrTimeout"} ELSE {})

WaitForCloseSelect ==
  /\ Alive
  /\ wfpc = "select"
  /\ \E r \in WaitForCloseReady : wfRet' = r
  /\ wfpc' = "idle"
  /\ UNCHANGED << confVars, lifeVars, transactionsIn, outClosed, coordVars,
                  workVars, targVars, srcVars, resp, closeVars, wfTimer,
                  wfFired, wfClosedAtFire, consVars, panicked, hist >>

\* ---- Coordinator: Retry.loop --------------------------------------------
\* for atomic.LoadInt32(&r.running) == 1 { ... } wg.Wait()
CoordLoopHead ==
  /\ Alive
  /\ cpc = "loop"
  /\ cpc' = IF running = 1 THEN "gate" ELSE "wgWait"
  /\ UNCHANGED << confVars, lifeVars, transactionsIn, outClosed, wg,
                  errLooped, tran, workVars, targVars, srcVars, resp,
                  closeVars, waitVars, consVars, panicked, hist >>

\* Mutant of CoordGate: the gate lets one retrying Worker through.
CoordGateOffByOne ==
  /\ Alive
  /\ cpc = "gate"
  /\ cpc' = IF errLooped > 1 THEN "gateWait" ELSE "acquire"
  /\ UNCHANGED << confVars, lifeVars, transactionsIn, outClosed, wg,
                  errLooped, tran, workVars, targVars, srcVars, resp,
                  closeVars, waitVars, consVars, panicked, hist >>

\* for atomic.LoadInt64(&errLooped) > 0 { select ... }
CoordGate ==
  /\ Alive
  /\ cpc = "gate"
  /\ cpc' = IF errLooped > 0 THEN "gateWait" ELSE "acquire"
  /\ UNCHANGED << confVars, lifeVars, transactionsIn, outClosed, wg,
                  errLooped, tran, workVars, targVars, srcVars, resp,
                  closeVars, waitVars, consVars, panicked, hist >>

\* Mutant of CoordGateTimeout: the gate's select has no timeout case.
CoordGateNoTimeout ==
  /\ FALSE
  /\ UNCHANGED vars

\* case <-time.After(time.Millisecond * 100)
CoordGateTimeout ==
  /\ Alive
  /\ cpc = "gateWait"
  /\ cpc' = "gate"
  /\ UNCHANGED << confVars, lifeVars, transactionsIn, outClosed, wg,
                  errLooped, tran, workVars, targVars, srcVars, resp,
                  closeVars, waitVars, consVars, panicked, hist >>

\* case tran, open = <-r.transactionsIn, open: mCount.Incr(1)
CoordAcquire ==
  /\ Alive
  /\ cpc = "acquire"
  /\ transactionsIn # NilSrc
  /\ ~srcClosed
  /\ srcNext <= MaxTx
  /\ tran' = srcNext
  /\ srcNext' = srcNext + 1
  /\ cpc' = "dispatch"
  /\ hist' = [hist EXCEPT !.mCount = @ + 1]
  /\ UNCHANGED << confVars, lifeVars, transactionsIn, outClosed, wg,
                  errLooped, workVars, targVars, srcClosed, resp,
                  closeVars, waitVars, consVars, panicked >>

\* case tran, open = <-r.transactionsIn, !open: return
\* The source has closed its channel (end of stream); nothing but this
\* receive observes the close, so the close and its observation are one step.
CoordAcquireClosed ==
  /\ Alive
  /\ cpc = "acquire"
  /\ transactionsIn # NilSrc
  /\ srcClosed' = TRUE
  /\ cpc' = "dCloseOut"
  /\ UNCHANGED << confVars, lifeVars, transactionsIn, outClosed, wg,
                  errLooped, tran, workVars, targVars, srcNext, resp,
                  closeVars, waitVars, consVars, panicked, hist >>

\* r.transactionsOut <- NewTransaction(tran.Payload, rChan); wg.Add(1);
\* go func(ts, resChan)
CoordDispatch ==
  /\ Alive
  /\ cpc = "dispatch"
  /\ ~outClosed
  /\ ~tclosed
  /\ pending' = pending \cup {[payload |-> tran, rchan |-> tran]}
  /\ wg' = wg + 1
  /\ wpc' = [wpc EXCEPT ![tran] = "loop"]
  /\ cpc' = "loop"
  /\ hist' = [hist EXCEPT !.sub[tran] = @ + 1]
  /\ UNCHANGED << confVars, lifeVars, transactionsIn, outClosed, errLooped,
                  tran, inErrLoop, resOut, res, backOff, twired, tStopReq,
                  tclosed, srcVars, resp, closeVars, waitVars, consVars,
                  panicked >>

\* case <-r.closeChan: return   (gate, acquire and dispatch selects)
CoordCancel ==
  /\ Alive
  /\ cpc \in {"gateWait", "acquire", "dispatch"}
  /\ closeChan
  /\ cpc' = "dCloseOut"
  /\ UNCHANGED << confVars, lifeVars, transactionsIn, outClosed, wg,
                  errLooped, tran, workVars, targVars, srcVars, resp,
                  closeVars, waitVars, consVars, panicked, hist >>

\* wg.Wait()
CoordWgWait ==
  /\ Alive
  /\ cpc = "wgWait"
  /\ wg = 0
  /\ cpc' = "dCloseOut"
  /\ UNCHANGED << confVars, lifeVars, transactionsIn, outClosed, wg,
                  errLooped, tran, workVars, targVars, srcVars, resp,
                  closeVars, waitVars, consVars, panicked, hist >>

\* deferred: close(r.transactionsOut)
DeferCloseOut ==
  /\ Alive
  /\ cpc = "dCloseOut"
  /\ cpc' = "dCloseAsync"
  /\ hist' = [hist EXCEPT !.outCloses = @ + 1]
  /\ IF outClosed
       THEN panicked' = TRUE /\ UNCHANGED outClosed
       ELSE outClosed' = TRUE /\ UNCHANGED panicked
  /\ UNCHANGED << confVars, lifeVars, transactionsIn, wg, errLooped, tran,
                  workVars, targVars, srcVars, resp, closeVars, waitVars,
                  consVars >>

\* deferred: r.wrapped.CloseAsync()
DeferCloseAsync ==
  /\ Alive
  /\ cpc = "dCloseAsync"
  /\ cpc' = "dWait"
  /\ tStopReq' = TRUE
  /\ UNCHANGED << confVars, lifeVars, transactionsIn, outClosed, wg,
                  errLooped, tran, workVars, twired, tclosed, pending,
                  srcVars, resp, closeVars, waitVars, consVars, panicked,
                  hist >>

\* Mutant of DeferWaitForClose: one WaitForClose call, its error ignored.
DeferWaitOnce ==
  /\ Alive
  /\ cpc = "dWait"
  /\ cpc' = "dMark"
  /\ UNCHANGED << confVars, lifeVars, transactionsIn, outClosed, wg,
                  errLooped, tran, workVars, targVars, srcVars, resp,
                  closeVars, waitVars, consVars, panicked, hist >>

\* deferred: for err != nil { err = r.wrapped.WaitForClose(time.Second) }
DeferWaitForClose ==
  /\ Alive
  /\ cpc = "dWait"
  /\ tclosed
  /\ cpc' = "dMark"
  /\ UNCHANGED << confVars, lifeVars, transactionsIn, outClosed, wg,
                  errLooped, tran, workVars, targVars, srcVars, resp,
                  closeVars, waitVars, consVars, panicked, hist >>

\* deferred: mRunning.Decr(1); close(r.closedChan)
DeferMarkClosed ==
  /\ Alive
  /\ cpc = "dMark"
  /\ cpc' = "done"
  /\ closedChan' = TRUE
  /\ UNCHANGED << confVars, running, closeChan, transactionsIn, outClosed,
                  wg, errLooped, tran, workVars, targVars, srcVars, resp,
                  closeVars, waitVars, consVars, panicked, hist >>

\* ---- wrapped Delivery Target --------------------------------------------
\* The target answers a transaction it holds on that transaction's response
\* channel; the Worker receives it (case res = <-resChan).
TargetRespond(t, o) ==
  /\ Alive
  /\ ~tclosed
  /\ \E p \in pending : p.rchan = t
  /\ wpc[t] = "await"
  /\ o = "err" => hist.fails[t] < MaxFails
  /\ pending' = {p \in pending : p.rchan # t}
  /\ res' = [res EXCEPT ![t] = o]
  /\ wpc' = [wpc EXCEPT ![t] = "got"]
  /\ hist' = IF o = "err" THEN [hist EXCEPT !.fails[t] = @ + 1] ELSE hist
  /\ UNCHANGED << confVars, lifeVars, transactionsIn, outClosed, coordVars,
                  inErrLoop, resOut, backOff, twired, tStopReq, tclosed,
                  srcVars, resp, closeVars, waitVars, consVars, panicked >>

\* The target stops once it was asked to, or once its input stream ended.
TargetClose ==
  /\ Alive
  /\ twired
  /\ ~tclosed
  /\ tStopReq \/ outClosed
  /\ tclosed' = TRUE
  /\ UNCHANGED << confVars, lifeVars, transactionsIn, outClosed, coordVars,
                  workVars, twired, tStopReq, pending, srcVars, resp,
                  closeVars, waitVars, consVars, panicked, hist >>

\* ---- backoff policy -----------------------------------------------------
\* backOff.NextBackOff() of an instance that has granted b intervals: Stop
\* once the max retry count is used up; with a max elapsed time configured,
\* Stop whenever that time has run out.
NextBackOff(b) ==
  IF MaxRetries > 0 /\ b >= MaxRetries THEN {"Stop"}
  ELSE IF ElapsedLimited THEN {"Wait", "Stop"}
  ELSE {"Wait"}

\* ---- Worker: the goroutine of Retry.loop --------------------------------
\* retryLoop: for atomic.LoadInt32(&r.running) == 1
WorkerLoopHead(t) ==
  /\ Alive
  /\ wpc[t] = "loop"
  /\ wpc' = [wpc EXCEPT ![t] = IF running = 1 THEN "await" ELSE "write"]
  /\ UNCHANGED << confVars, lifeVars, transactionsIn, outClosed, coordVars,
                  inErrLoop, resOut, res, backOff, targVars, srcVars, resp,
                  closeVars, waitVars, consVars, panicked, hist >>

\* Mutant of WorkerHandle: a new backoff instance on every failure.
WorkerHandleFreshBackoff(t) ==
  /\ Alive
  /\ wpc[t] = "got"
  /\ res' = [res EXCEPT ![t] = "none"]
  /\ IF res[t] = "err"
       THEN /\ inErrLoop' = [inErrLoop EXCEPT ![t] = TRUE]
            /\ errLooped' = IF inErrLoop[t] THEN errLooped ELSE errLooped + 1
            /\ LET b == 0 IN
               \E nextBackoff \in NextBackOff(b) :
                 IF nextBackoff = "Stop"
                   THEN /\ resOut' = [resOut EXCEPT ![t] = "noack"]
                        /\ wpc' = [wpc EXCEPT ![t] = "write"]
                        /\ backOff' = [backOff EXCEPT ![t] = b]
                        /\ hist' = [hist EXCEPT !.mError[t] = @ + 1,
                                                !.mEndOfRetries[t] = @ + 1]
                   ELSE /\ wpc' = [wpc EXCEPT ![t] = "backoff"]
                        /\ backOff' = [backOff EXCEPT ![t] =
                                         IF MaxRetries > 0 THEN b + 1 ELSE b]
                        /\ hist' = [hist EXCEPT !.mError[t] = @ + 1]
                        /\ UNCHANGED resOut
       ELSE /\ resOut' = [resOut EXCEPT ![t] = "ack"]
            /\ wpc' = [wpc EXCEPT ![t] = "write"]
            /\ hist' = [hist EXCEPT !.mSuccess[t] = @ + 1]
            /\ UNCHANGED << inErrLoop, errLooped, backOff >>
  /\ UNCHANGED << confVars, lifeVars, transactionsIn, outClosed, cpc, wg,
                  tran, targVars, srcVars, resp, closeVars, waitVars,
                  consVars, panicked >>

\* Mutant of WorkerHandle: the Worker is marked in error loop only once the
\* backoff policy has granted a wait.
WorkerHandleMarkAfterStop(t) ==
  /\ Alive
  /\ wpc[t] = "got"
  /\ res' = [res EXCEPT ![t] = "none"]
  /\ IF res[t] = "err"
       THEN LET b == IF backOff[t] = -1 THEN 0 ELSE backOff[t] IN
            \E nextBackoff \in NextBackOff(b) :
              IF nextBackoff = "Stop"
                THEN /\ resOut' = [resOut EXCEPT ![t] = "noack"]
                     /\ wpc' = [wpc EXCEPT ![t] = "write"]
                     /\ backOff' = [backOff EXCEPT ![t] = b]
                     /\ hist' = [hist EXCEPT !.mError[t] = @ + 1,
                                             !.mEndOfRetries[t] = @ + 1]
                     /\ UNCHANGED << inErrLoop, errLooped >>
                ELSE /\ inErrLoop' = [inErrLoop EXCEPT ![t] = TRUE]
                     /\ errLooped' =
                          IF inErrLoop[t] THEN errLooped ELSE errLooped + 1
                     /\ wpc' = [wpc EXCEPT ![t] = "backoff"]
                     /\ backOff' = [backOff EXCEPT ![t] =
                                      IF MaxRetries > 0 THEN b + 1 ELSE b]
                     /\ hist' = [hist EXCEPT !.mError[t] = @ + 1]
                     /\ UNCHANGED resOut
       ELSE /\ resOut' = [resOut EXCEPT ![t] = "ack"]
            /\ wpc' = [wpc EXCEPT ![t] = "write"]
            /\ hist' = [hist EXCEPT !.mSuccess[t] = @ + 1]
            /\ UNCHANGED << inErrLoop, errLooped, backOff >>
  /\ UNCHANGED << confVars, lifeVars, transactionsIn, outClosed, cpc, wg,
                  tran, targVars, srcVars, resp, closeVars, waitVars,
                  consVars, panicked >>

\* if res.Error() != nil { ... } else { ... }
WorkerHandle(t) ==
  /\ Alive
  /\ wpc[t] = "got"
  /\ res' = [res EXCEPT ![t] = "none"]
  /\ IF res[t] = "err"
       THEN /\ inErrLoop' = [inErrLoop EXCEPT ![t] = TRUE]
            /\ errLooped' = IF inErrLoop[t] THEN errLooped ELSE errLooped + 1
            /\ LET b == IF backOff[t] = -1 THEN 0 ELSE backOff[t] IN
               \E nextBackoff \in NextBackOff(b) :
                 IF nextBackoff = "Stop"
                   THEN /\ resOut' = [resOut EXCEPT ![t] = "noack"]
                        /\ wpc' = [wpc EXCEPT ![t] = "write"]
                        /\ backOff' = [backOff EXCEPT ![t] = b]
                        /\ hist' = [hist EXCEPT !.mError[t] = @ + 1,
                                                !.mEndOfRetries[t] = @ + 1]
                   ELSE /\ wpc' = [wpc EXCEPT ![t] = "backoff"]
                        /\ backOff' = [backOff EXCEPT ![t] =
                                         IF MaxRetries > 0 THEN b + 1 ELSE b]
                        /\ hist' = [hist EXCEPT !.mError[t] = @ + 1]
                        /\ UNCHANGED resOut
       ELSE /\ resOut' = [resOut EXCEPT ![t] = "ack"]
            /\ wpc' = [wpc EXCEPT ![t] = "write"]
            /\ hist' = [hist EXCEPT !.mSuccess[t] = @ + 1]
            /\ UNCHANGED << inErrLoop, errLooped, backOff >>
  /\ UNCHANGED << confVars, lifeVars, transactionsIn, outClosed, cpc, wg,
                  tran, targVars, srcVars, resp, closeVars, waitVars,
                  consVars, panicked >>

\* case <-time.After(nextBackoff)
WorkerBackoffElapsed(t) ==
  /\ Alive
  /\ wpc[t] = "backoff"
  /\ wpc' = [wpc EXCEPT ![t] = "resubmit"]
  /\ hist' = [hist EXCEPT !.waits[t] = @ + 1]
  /\ UNCHANGED << confVars, lifeVars, transactionsIn, outClosed, coordVars,
                  inErrLoop, resOut, res, backOff, targVars, srcVars, resp,
                  closeVars, waitVars, consVars, panicked >>

\* Mutant of Resubmission: the payload of the Coordinator's loop variable.
ResubmissionLoopVar(t) == [payload |-> tran, rchan |-> t]

\* types.NewTransaction(ts.Payload, resChan)
Resubmission(t) == [payload |-> t, rchan |-> t]

\* Mutant of WorkerResubmit: after the send the Worker is back at the send
\* instead of at the head of the retry loop.
WorkerResubmitAgain(t) ==
  /\ Alive
  /\ wpc[t] = "resubmit"
  /\ IF outClosed
       THEN /\ panicked' = TRUE
            /\ UNCHANGED << wpc, pending, hist >>
       ELSE /\ ~tclosed
            /\ LET m == Resubmission(t) IN
               /\ pending' = pending \cup {m}
               /\ hist' = [hist EXCEPT
                             !.sub[m.rchan] = @ + 1,
                             !.payOK[m.rchan] = @ /\ m.payload = m.rchan]
            /\ wpc' = [wpc EXCEPT ![t] = "resubmit"]
            /\ UNCHANGED panicked
  /\ UNCHANGED << confVars, lifeVars, transactionsIn, outClosed, coordVars,
                  inErrLoop, resOut, res, backOff, twired, tStopReq, tclosed,
                  srcVars, resp, closeVars, waitVars, consVars >>

\* case r.transactionsOut <- ...: a send on the closed stream panics
WorkerResubmit(t) ==
  /\ Alive
  /\ wpc[t] = "resubmit"
  /\ IF outClosed
       THEN /\ panicked' = TRUE
            /\ UNCHANGED << wpc, pending, hist >>
       ELSE /\ ~tclosed
            /\ LET m == Resubmission(t) IN
               /\ pending' = pending \cup {m}
               /\ hist' = [hist EXCEPT
                             !.sub[m.rchan] = @ + 1,
                             !.payOK[m.rchan] = @ /\ m.payload = m.rchan]
            /\ wpc' = [wpc EXCEPT ![t] = "loop"]
            /\ UNCHANGED panicked
  /\ UNCHANGED << confVars, lifeVars, transactionsIn, outClosed, coordVars,
                  inErrLoop, resOut, res, backOff, twired, tStopReq, tclosed,
                  srcVars, resp, closeVars, waitVars, consVars >>

\* Mutant of WorkerWrite: the write sits inside the retry loop.
WorkerWriteInLoop(t) ==
  /\ Alive
  /\ wpc[t] = "write"
  /\ resp' = [resp EXCEPT ![t] = Append(@, resOut[t])]
  /\ wpc' = [wpc EXCEPT ![t] = "loop"]
  /\ UNCHANGED << confVars, lifeVars, transactionsIn, outClosed, coordVars,
                  inErrLoop, resOut, res, backOff, targVars, srcVars,
                  closeVars, waitVars, consVars, panicked, hist >>

\* case ts.ResponseChan <- resOut   (the upstream reads the response)
WorkerWrite(t) ==
  /\ Alive
  /\ wpc[t] = "write"
  /\ resp' = [resp EXCEPT ![t] = Append(@, resOut[t])]
  /\ wpc' = [wpc EXCEPT ![t] = "dDone"]
  /\ UNCHANGED << confVars, lifeVars, transactionsIn, outClosed, coordVars,
                  inErrLoop, resOut, res, backOff, targVars, srcVars,
                  closeVars, waitVars, consVars, panicked, hist >>

\* case <-r.closeChan: return   (the Worker's four selects)
WorkerCancel(t) ==
  /\ Alive
  /\ wpc[t] \in {"await", "backoff", "resubmit", "write"}
  /\ closeChan
  /\ wpc' = [wpc EXCEPT ![t] = "dDone"]
  /\ UNCHANGED << confVars, lifeVars, transactionsIn, outClosed, coordVars,
                  inErrLoop, resOut, res, backOff, targVars, srcVars, resp,
                  closeVars, waitVars, consVars, panicked, hist >>

\* Mutant of WorkerDeferDone: the decrement no longer depends on inErrLoop.
WorkerDeferDoneNoCheck(t) ==
  /\ Alive
  /\ wpc[t] = "dDone"
  /\ wg' = wg - 1
  /\ wpc' = [wpc EXCEPT ![t] = "dDecr"]
  /\ UNCHANGED << confVars, lifeVars, transactionsIn, outClosed, cpc,
                  errLooped, tran, inErrLoop, resOut, res, backOff, targVars,
                  srcVars, resp, closeVars, waitVars, consVars, panicked,
                  hist >>

\* deferred: wg.Done()
WorkerDeferDone(t) ==
  /\ Alive
  /\ wpc[t] = "dDone"
  /\ wg' = wg - 1
  /\ wpc' = [wpc EXCEPT ![t] = IF inErrLoop[t] THEN "dDecr" ELSE "dead"]
  /\ UNCHANGED << confVars, lifeVars, transactionsIn, outClosed, cpc,
                  errLooped, tran, inErrLoop, resOut, res, backOff, targVars,
                  srcVars, resp, closeVars, waitVars, consVars, panicked,
                  hist >>

\* deferred: atomic.AddInt64(&errLooped, -1), then
\* select { case errInterruptChan <- struct{}{}: default: }
\* The notification is taken only by a Coordinator parked in the gate's
\* select; a Coordinator that has not parked yet misses it.
WorkerDeferDecr(t) ==
  /\ Alive
  /\ wpc[t] = "dDecr"
  /\ errLooped' = errLooped - 1
  /\ wpc' = [wpc EXCEPT ![t] = "dead"]
  /\ \E delivered \in (IF cpc = "gateWait" THEN BOOLEAN ELSE {FALSE}) :
       cpc' = IF delivered THEN "gate" ELSE cpc
  /\ UNCHANGED << confVars, lifeVars, transactionsIn, outClosed, wg, tran,
                  inErrLoop, resOut, res, backOff, targVars, srcVars, resp,
                  closeVars, waitVars, consVars, panicked, hist >>

\* ---- specifications -----------------------------------------------------
\* Steps of the Coordinator, the Workers and the Delivery Target that need
\* no shutdown request.
CoordRun ==
  \/ CoordLoopHead \/ CoordGate \/ CoordGateTimeout \/ CoordDispatch
  \/ DeferCloseOut \/ DeferCloseAsync \/ DeferWaitForClose \/ DeferMarkClosed

WorkerRun(t) ==
  \/ WorkerLoopHead(t) \/ WorkerHandle(t) \/ WorkerBackoffElapsed(t)
  \/ WorkerResubmit(t) \/ WorkerWrite(t)
  \/ WorkerDeferDone(t) \/ WorkerDeferDecr(t)

TargetStep(t) == \E o \in {"ok", "err"} : TargetRespond(t, o)

Running ==
  \/ CoordRun
  \/ CoordAcquire
  \/ CoordAcquireClosed
  \/ \E t \in Tx : WorkerRun(t)
  \/ \E t \in Tx : TargetStep(t)
  \/ TargetClose

\* Steps that follow a shutdown request.
Cancelled ==
  \/ CoordCancel
  \/ CoordWgWait
  \/ \E t \in Tx : WorkerCancel(t)

\* The pipeline with an upstream that wires its source once and one caller
\* of CloseAsync.
Next ==
  \/ (consumeCalls = 0 /\ Consume(1))
  \/ CloseAsyncCAS(1) \/ CloseAsyncClose(1)
  \/ Running
  \/ Cancelled

Spec == Init /\ [][Next]_vars

\* The same pipeline when CloseAsync is never called.
NextNoClose ==
  \/ (consumeCalls = 0 /\ Consume(1))
  \/ Running

\* The API under concurrent and repeated calls; the source offers a single
\* transaction.
NextLifecycle ==
  \/ \E s \in Sources : Consume(s)
  \/ \E c \in Closers : CloseAsyncCAS(c) \/ CloseAsyncClose(c)
  \/ \E d \in 0..MaxTimeout : WaitForCloseCall(d)
  \/ TimerStep
  \/ WaitForCloseSelect
  \/ CoordRun
  \/ (srcNext = 1 /\ CoordAcquire)
  \/ CoordAcquireClosed
  \/ \E t \in Tx : WorkerRun(t)
  \/ \E t \in Tx : TargetStep(t)
  \/ TargetClose
  \/ Cancelled

\* The retry budget plays no part in these calls: one configuration.
InitLifecycle == Init /\ MaxRetries = 1

SpecLifecycle == InitLifecycle /\ [][NextLifecycle]_vars

\* Scheduling: every goroutine that can take a step eventually takes one; a
\* select with a ready case eventually fires one of its ready cases.  The
\* Delivery Target answers what it holds while it runs, the backoff timers
\* and the gate's timeout elapse, the upstream reads the responses, and a
\* CloseAsync caller that won the compare-and-swap goes on to the close.
\* Nothing forces the source to close, a call of the API to happen, or an
\* interrupt notification to be delivered.
CoordProgress == CoordRun \/ CoordAcquire \/ CoordCancel \/ CoordWgWait

Fairness ==
  /\ WF_vars(CoordProgress)
  /\ \A t \in Tx : WF_vars(WorkerRun(t) \/ WorkerCancel(t))
  /\ \A t \in Tx : WF_vars(TargetStep(t))
  /\ WF_vars(TargetClose)
  /\ WF_vars(CloseAsyncClose(1))

FairSpec == Spec /\ Fairness

FairSpecNoClose == Init /\ [][NextNoClose]_vars /\ Fairness

\* The pipeline with one caller of CloseAsync under the scheduling above,
\* for one retry budget.
InitShutdown == Init /\ MaxRetries = 1

FairSpecShutdown == InitShutdown /\ [][Next]_vars /\ Fairness

\* ---- properties ---------------------------------------------------------
Owes(t) == \E p \in pending : p.rchan = t

\* C1: at most one response is ever written to a transaction's original
\* response destination (ts.ResponseChan), whatever the interleaving of the
\* Coordinator, the Workers, the Delivery Target and CloseAsync.
C1_AtMostOneResponse == \A t \in Tx : Len(resp[t]) <= 1

\* C1 witness: a response was written while a shutdown was under way, and
\* the Worker has finished.
C1_Witness ==
  \E t \in Tx : Len(resp[t]) = 1 /\ wpc[t] = "dead" /\ running = 0

\* C2: every transaction pulled from the source eventually has a terminal
\* outcome (success or not-acknowledged) written to its response
\* destination, given that the Delivery Target answers every submission (it
\* has not stopped while still holding the transaction), the backoff waits
\* elapse and the upstream reads the response.
C2_EveryPulledAnswered ==
  \A t \in Tx :
    (srcNext > t) ~> \/ resp[t] \in {<<"ack">>, <<"noack">>}
                     \/ (tclosed /\ Owes(t))

C5_BudgetSemantics ==
  \A t \in Tx :
    (MaxRetries > 0 /\ ~ElapsedLimited) =>
      /\ hist.sub[t] <= MaxRetries + 1
      /\ hist.mEndOfRetries[t] <= 1
      /\ hist.mEndOfRetries[t] = 1 <=> resOut[t] = "noack"
      /\ hist.mError[t] = MaxRetries + 1 <=> resOut[t] = "noack"
      /\ resOut[t] = "noack" =>
           /\ hist.sub[t] = MaxRetries + 1
           /\ hist.fails[t] = MaxRetries + 1
           /\ hist.waits[t] = MaxRetries
           /\ hist.mSuccess[t] = 0

\* C5 witness: the largest budget was used up and the not-acknowledged
\* outcome was written.
C5_Witness ==
  \E t \in Tx :
    /\ MaxRetries = MaxBudget /\ ~ElapsedLimited
    /\ hist.sub[t] = MaxBudget + 1
    /\ resp[t] = <<"noack">>

\* C6: a Worker that produces the success outcome after k failures has
\* recorded exactly k failures, waited k times and resubmitted k times, each
\* time the same payload on the same response channel; it writes success and
\* nothing else to the response destination.
C6_FailThenSucceed ==
  \A t \in Tx :
    /\ hist.mSuccess[t] = 1 <=> resOut[t] = "ack"
    /\ resOut[t] = "ack" =>
         /\ hist.mError[t] = hist.fails[t]
         /\ hist.waits[t] = hist.fails[t]
         /\ hist.sub[t] = hist.fails[t] + 1
         /\ hist.payOK[t]
         /\ hist.mEndOfRetries[t] = 0
         /\ resp[t] \in {<< >>, <<"ack">>}

\* C6 witness: two failures, then a success that was written.
C6_Witness ==
  \E t \in Tx : hist.fails[t] = 2 /\ resp[t] = <<"ack">> /\ running = 1

\* C7: however many CloseAsync calls run, one after another or at once,
\* the Running Flag goes from true to false exactly once and never back, and
\* closeChan is closed exactly once, never twice.
C7_CloseOnce ==
  /\ hist.casWins <= 1
  /\ hist.closes <= 1
  /\ running = 1 <=> hist.casWins = 0
  /\ closeChan <=> hist.closes = 1
  /\ (\A c \in Closers : clpc[c] = "done") =>
       (running = 0 /\ closeChan /\ hist.closes = 1)

\* C7 witness: every caller has returned.
C7_Witness == \A c \in Closers : clpc[c] = "done"

\* C8: WaitForClose returns the timeout condition only when the timeout
\* elapsed while the fully-closed signal had not fired; so a call made once
\* closedChan is closed never returns an error, whatever the timeout.
C8_NoTimeoutOnceClosed == wfRet = "ErrTimeout" => ~wfClosedAtFire

\* C9: after a Consume that returned nil, every later Consume call returns
\* the already-started condition and changes nothing: the wired source, the
\* Delivery Target's wiring and the one Coordinator loop stay as they are.
C9_NoDoubleConsume ==
  [][(hist.consumeOK >= 1 /\ consumeCalls' > consumeCalls) =>
       /\ consumeRet' = "ErrAlreadyStarted"
       /\ transactionsIn' = transactionsIn
       /\ twired' = twired
       /\ cpc' = cpc
       /\ hist' = hist]_vars

\* C9 witness: a Consume call after the successful one has returned.
C9_Witness ==
  /\ hist.consumeOK = 1 /\ hist.loops = 1
  /\ consumeCalls >= 2 /\ consumeRet = "ErrAlreadyStarted"

\* C10: the stream to the Delivery Target is closed exactly once and before
\* the target is asked to stop; the Coordinator goes on to mark itself
\* closed only once the target reports closed, so the fully-closed signal
\* never fires while the target is not closed.
C10_ShutdownOrder ==
  /\ hist.outCloses <= 1
  /\ tStopReq => outClosed
  /\ cpc \in {"dCloseAsync", "dWait", "dMark", "done"} => outClosed
  /\ cpc \in {"dWait", "dMark", "done"} => tStopReq
  /\ cpc \in {"dMark", "done"} => tclosed
  /\ closedChan <=> cpc = "done"

\* C10 witness: the Coordinator has exited and marked itself closed.
C10_Witness == closedChan /\ hist.outCloses = 1 /\ tclosed

\* The Workers that are marked in error loop and have not yet run their
\* deferred decrement.
ErrLoopedWorkers == {t \in Tx : inErrLoop[t] /\ wpc[t] # "dead"}

\* The live Workers that have received at least one failure response.
FailedLiveWorkers ==
  {t \in Tx : hist.fails[t] >= 1 /\ wpc[t] \notin {"none", "dead"}}

\* C11: errLooped is never negative and in every reachable state equals the
\* number of live Workers that have received at least one failure response.
C11_CounterEqualsFailedLive ==
  errLooped >= 0 /\ errLooped = Cardinality(FailedLiveWorkers)

\* C11 as amended: errLooped is never negative and equals the number of
\* Workers that have handled a first failure and not yet run their deferred
\* decrement; a Worker raises it only in the step that marks it in error
\* loop, never unmarks itself, lowers it only in its deferred exit after
\* having been marked, and a Worker that has finished is not counted.
C11_CounterAccounting ==
  /\ [](errLooped >= 0 /\ errLooped = Cardinality(ErrLoopedWorkers))
  /\ [][/\ \A t \in Tx : inErrLoop[t] => inErrLoop'[t]
        /\ \A t \in Tx : (~inErrLoop[t] /\ inErrLoop'[t]) =>
              (hist.fails[t] = 1 /\ errLooped' = errLooped + 1)
        /\ errLooped' > errLooped =>
              \E t \in Tx : ~inErrLoop[t] /\ inErrLoop'[t]
        /\ errLooped' < errLooped =>
              /\ errLooped' = errLooped - 1
              /\ \E t \in Tx : /\ inErrLoop[t]
                               /\ wpc[t] = "dDecr" /\ wpc'[t] = "dead"]_vars

\* C11 witness: one Worker left through cancellation after a failure,
\* another after a success without any failure, and the counter is back at
\* zero.
C11_Witness ==
  /\ errLooped = 0
  /\ \E t \in Tx : inErrLoop[t] /\ wpc[t] = "dead" /\ resp[t] = << >>
  /\ \E t \in Tx : ~inErrLoop[t] /\ wpc[t] = "dead" /\ resp[t] = <<"ack">>

\* The Workers marked in error loop that are still inside the retry loop:
\* not blocked on the terminal write, and nothing written yet.
RetryingWorkers ==
  {t \in Tx : /\ inErrLoop[t]
              /\ wpc[t] \notin {"write", "dead"}
              /\ resp[t] = << >>}

\* C12: a Worker marked in error loop has decremented errLooped by the time
\* it is at the terminal write, so errLooped never counts a Worker that is
\* blocked on that write or has completed it.
C12_DecrementBeforeWrite == errLooped <= Cardinality(RetryingWorkers)

\* C13: when the fully-closed signal fires no Worker is still running: every
\* Worker the Coordinator launched has reached its wg.Done().
C13_ClosedAfterWorkers == closedChan => wg = 0

\* C14: every response written to a transaction's response destination is
\* success or not-acknowledged, never the unset response.
C14_OnlyTerminalOutcomes ==
  \A t \in Tx : \A i \in 1..Len(resp[t]) : resp[t][i] \in {"ack", "noack"}

\* C15: a transaction is submitted for the first time by the dispatch that
\* launches its Worker; at every point its submissions number at most one
\* plus the failure responses its Worker has received; and once its Worker
\* has received a success response it is never submitted again.
C15_SubmissionOrder ==
  /\ [](\A t \in Tx : /\ hist.sub[t] <= 1 + hist.fails[t]
                       /\ wpc[t] = "none" <=> hist.sub[t] = 0)
  /\ [][\A t \in Tx :
          /\ (res[t] = "ok" \/ hist.mSuccess[t] >= 1) =>
                hist'.sub[t] = hist.sub[t]
          /\ (hist.sub[t] >= 1 /\ hist'.sub[t] > hist.sub[t]) =>
                (wpc[t] = "resubmit" /\ hist.fails[t] >= hist.sub[t])]_vars

\* C15 witness: a transaction was dispatched, failed twice, was resubmitted
\* twice and then succeeded.
C15_Witness ==
  \E t \in Tx :
    hist.sub[t] = 3 /\ hist.fails[t] = 2 /\ hist.mSuccess[t] = 1

\* The backoff policy answered Stop to the first request of t's Worker: the
\* one failure it received ended its retries.
StoppedAtFirstFailure(t) ==
  hist.fails[t] = 1 /\ hist.mEndOfRetries[t] = 1

\* C16: a Worker whose first failure is answered with Stop by its backoff
\* instance produces the not-acknowledged outcome with no backoff wait and
\* no resubmission, and writes nothing else; it has raised errLooped (it is
\* marked in error loop and counted until its exit) and lowers it exactly
\* once, in its deferred exit.
C16_ImmediateExhaustion ==
  /\ [](\A t \in Tx : StoppedAtFirstFailure(t) =>
           /\ resOut[t] = "noack"
           /\ hist.waits[t] = 0
           /\ hist.sub[t] = 1
           /\ hist.mError[t] = 1 /\ hist.mSuccess[t] = 0
           /\ resp[t] \in {<< >>, <<"noack">>}
           /\ inErrLoop[t]
           /\ wpc[t] \in {"write", "dDone", "dDecr", "dead"}
           /\ wpc[t] # "dead" => errLooped >= 1)
  /\ [][\A t \in Tx : StoppedAtFirstFailure(t) =>
          /\ (wpc[t] # "dead" /\ wpc'[t] = "dead") =>
                (wpc[t] = "dDecr" /\ errLooped' = errLooped - 1)
          /\ inErrLoop'[t]]_vars

\* C16 witness: such a Worker has written not-acknowledged and finished,
\* and the counter is back at zero.
C16_Witness ==
  \E t \in Tx :
    /\ StoppedAtFirstFailure(t)
    /\ resp[t] = <<"noack">> /\ wpc[t] = "dead" /\ errLooped = 0

\* The step in which a Worker's resubmission send runs on the closed
\* transactionsOut: the process panics at the Worker's select.
SendOnClosedOut(t) ==
  /\ wpc[t] = "resubmit" /\ outClosed
  /\ ~panicked /\ panicked'
  /\ wpc' = wpc /\ cpc' = cpc /\ clpc' = clpc

\* C17: no Worker ever sends a resubmission on transactionsOut after the
\* Coordinator has closed it.
C17_NoSendOnClosedOut == [][\A t \in Tx : ~SendOnClosedOut(t)]_vars

AllWorkersTerminated == \A t \in Tx : wpc[t] \in {"none", "dead"}

\* C18: once CloseAsync has been called on a started component, eventually
\* every Worker has terminated, the fully-closed signal has fired and
\* errLooped is zero, given that the scheduler runs every goroutine and the
\* Delivery Target eventually reports closed.
C18_ShutdownCompletes ==
  (running = 0 /\ cpc # "none")
    ~> (closedChan /\ AllWorkersTerminated /\ errLooped = 0)

\* The same, unless the process has panicked.
ShutdownCompletesOrPanics ==
  (running = 0 /\ cpc # "none")
    ~> (panicked \/ (closedChan /\ AllWorkersTerminated /\ errLooped = 0))

\* C19: if the source is closed and CloseAsync is never called, every
\* transaction dispatched before the close eventually has its terminal
\* outcome written and its Worker terminated; no Worker stays blocked for
\* ever.
C19_DrainOnSourceClose ==
  \A t \in Tx :
    (srcClosed /\ wpc[t] # "none")
      ~> (wpc[t] = "dead" /\ resp[t] \in {<<"ack">>, <<"noack">>})

\* C20: a Consume call that the Delivery Target rejects returns the target's
\* error, starts no Coordinator loop and leaves the source unset and the
\* target unwired; and a Consume call made while no earlier call has
\* returned nil is never answered with the already-started condition.
C20_RejectedWiringLeavesUnwired ==
  [][consumeCalls' > consumeCalls =>
       /\ hist'.wireCalls > hist.wireCalls /\ hist'.wires = hist.wires =>
            /\ consumeRet' = "errWrapped"
            /\ transactionsIn' = NilSrc
            /\ twired' = twired /\ ~twired'
            /\ cpc' = cpc /\ cpc' = "none"
            /\ hist'.loops = hist.loops
       /\ hist.consumeOK = 0 => consumeRet' # "ErrAlreadyStarted"]_vars

\* C20 witness: the first Consume call was rejected by the Delivery Target
\* and the second one wired the component and started the loop.
C20_Witness ==
  /\ consumeCalls = 2 /\ hist.wireCalls = 2
  /\ hist.consumeOK = 1 /\ hist.loops = 1
  /\ consumeRet = "nil" /\ transactionsIn # NilSrc

====
